---- MODULE Spec2Model ----
(***************************************************************************)
(* The lead write path of the HKE backend: POST /api/leads (create_lead in *)
(* main.py) and insert_lead / get_sheet / _get_required_env in             *)
(* google_sheets.py.                                                       *)
(*                                                                         *)
(* Python strings are sequences of one-character strings, so that strip()  *)
(* is computed and not assumed.  Python values are tagged records.  A dict  *)
(* is a function whose DOMAIN is the set of its keys.                      *)
(***************************************************************************)
EXTENDS Integers, Sequences, FiniteSets, TLC

VARIABLES environ, data, now, rows, pc, caller, cfg, ws, row, exc, calls, response

vars == <<environ, data, now, rows, pc, caller, cfg, ws, row, exc, calls, response>>

(* ------------------------------ bounds --------------------------------- *)

MaxRows == 2

MaxClock == 2

(* --------------------------- Python values ----------------------------- *)

PyNone == [t |-> "none", v |-> 0]

PyInt(n) == [t |-> "int", v |-> n]

PyStr(s) == [t |-> "str", v |-> s]

PyList(s) == [t |-> "list", v |-> s]

Whitespace == {" ", "\t"}

\* bool(x) for the value kinds that reach the code
Truthy(x) ==
    CASE x.t = "none" -> FALSE
      [] x.t = "int"  -> x.v # 0
      [] x.t = "str"  -> Len(x.v) > 0
      [] x.t = "list" -> Len(x.v) > 0

\* the Python expression  a or b
PyOr(a, b) == IF Truthy(a) THEN a ELSE b

RECURSIVE lstrip(_)
lstrip(s) == IF s # <<>> /\ Head(s) \in Whitespace THEN lstrip(Tail(s)) ELSE s

RECURSIVE rstrip(_)
rstrip(s) ==
    IF s # <<>> /\ s[Len(s)] \in Whitespace THEN rstrip(SubSeq(s, 1, Len(s) - 1)) ELSE s

\* str.strip()
strip(s) == rstrip(lstrip(s))

\* dict.get(key) and dict.get(key, default)
Get(d, k) == IF k \in DOMAIN d THEN d[k] ELSE PyNone

GetDefault(d, k, dflt) == IF k \in DOMAIN d THEN d[k] ELSE dflt

(* ----------------------------- exceptions ------------------------------ *)

NoExc == [type |-> "", msg |-> "", arg |-> "", at |-> ""]

\* an exception object: its class, the fixed head of its message, what the
\* message formats in (a key, or the repr() of the exception it was raised
\* for), and the step of the call that raised it
Exc(type, msg, arg, at) == [type |-> type, msg |-> msg, arg |-> arg, at |-> at]

MsgMissingEnv == "Missing environment variable: "

MsgCredsNotFound == "Google credentials file not found. "

MsgOpenFailed == "Failed to open Google Sheet tab. "

\* (the source puts a cross-mark emoji and a space before these words)
MsgAppendFailed == "Failed to append row to Google Sheet: "

(* --------------------------- configuration ----------------------------- *)

EnvKeys == <<"GOOGLE_APPLICATION_CREDENTIALS", "GOOGLE_SHEET_ID", "GOOGLE_SHEET_TAB">>

\* os.getenv(key): None when unset, else the string
getenv(key) == IF key \in DOMAIN environ THEN PyStr(environ[key]) ELSE PyNone

\* mutant: the test without its strip() half
EnvMissingNoStrip(key) == ~Truthy(getenv(key))

\* the test of _get_required_env:  not val or not val.strip()
EnvMissing(key) ==
    LET val == getenv(key) IN IF ~Truthy(val) THEN TRUE ELSE ~Truthy(PyStr(strip(val.v)))

\* the value _get_required_env returns
get_required_env(key) == strip(getenv(key).v)

\* the first key, in the order get_sheet asks for them, that is missing
FirstMissing == CHOOSE i \in 1..3 : EnvMissing(EnvKeys[i]) /\ \A j \in 1..(i - 1) : ~EnvMissing(EnvKeys[j])

AnyMissing == \E i \in 1..3 : EnvMissing(EnvKeys[i])

\* os.path.dirname(os.path.abspath(__file__))
base_dir == <<"/", "b">>

isabs(p) == p # <<>> /\ Head(p) = "/"

join(a, p) == a \o <<"/">> \o p

\* creds_abs in get_sheet
creds_abs(creds_path) == IF isabs(creds_path) THEN creds_path ELSE join(base_dir, creds_path)

\* the files on disk: one service-account file
Files == {<<"/", "b", "/", "c">>}

exists(p) == p \in Files

\* the remote service: one spreadsheet with one worksheet
SheetId == <<"i">>

SheetTab == <<"t">>

(* ------------------------------- inputs -------------------------------- *)

Absent == [t |-> "absent", v |-> 0]

\* the dict `base` with key k set to v, or without key k when v is Absent
Override(base, k, v) ==
    IF v = Absent
    THEN [x \in DOMAIN base \ {k} |-> base[x]]
    ELSE [x \in DOMAIN base \cup {k} |-> IF x = k THEN v ELSE base[x]]

StringKeys ==
    {"name", "phone", "email", "state", "start_date", "end_date", "hotel_category",
     "guide", "vehicle", "package", "source", "message", "status"}

NumKeys == {"days", "travellers", "rooms"}

AllKeys == StringKeys \cup NumKeys \cup {"mobile", "timestamp"}

BlankText == <<" ", "\t">>

PaddedText == <<" ", "a", " ">>

ClientTs == <<"1", "9", "9", "9">>

Values ==
    {PyNone, PyInt(0), PyInt(5), PyStr(<<>>), PyStr(BlankText), PyStr(PaddedText)}

EmptyPayload == [k \in {} |-> PyNone]

FullPayload ==
    [k \in AllKeys |->
        IF k \in NumKeys THEN PyInt(5)
        ELSE IF k = "timestamp" THEN PyStr(ClientTs)
        ELSE PyStr(PaddedText)]

NullPayload == [k \in AllKeys |-> PyNone]

\* {"name":"Ravi","mobile":"999","destination":"Manali","start_date":"2025-06-01","days":5}
ExamplePayload ==
    [k \in {"name", "mobile", "destination", "start_date", "days"} |->
        IF k = "days" THEN PyInt(5)
        ELSE IF k = "name" THEN PyStr(<<"R">>)
        ELSE IF k = "mobile" THEN PyStr(<<"9">>)
        ELSE IF k = "destination" THEN PyStr(<<"M">>)
        ELSE PyStr(<<"d">>)]

\* the keys a payload may differ in from its base
FocusKeys == AllKeys \ {"timestamp"}

\* LeadIn (main.py): the declared fields, all of the declared type
LeadInKeys ==
    {"source", "name", "email", "phone", "destination", "startDate", "endDate", "days",
     "travellers", "rooms", "hotelClass", "guide", "vehicle", "subDestinations"}

\* lead.dict() of a validated LeadIn whose source and phone are the given strings
LeadDict(source, phone) ==
    [k \in LeadInKeys |->
        IF k \in NumKeys THEN PyInt(5)
        ELSE IF k = "subDestinations" THEN PyList(<<>>)
        ELSE IF k = "source" THEN PyStr(source)
        ELSE IF k = "phone" THEN PyStr(phone)
        ELSE PyStr(PaddedText)]

LeadDicts ==
    {LeadDict(<<"w">>, <<"9">>), LeadDict(BlankText, PaddedText), LeadDict(<<>>, <<>>)}

IsLeadDict(d) == DOMAIN d = LeadInKeys

Payloads ==
    {Override(base, k, v) :
        base \in {EmptyPayload, FullPayload}, k \in FocusKeys, v \in Values \cup {Absent}}
    \cup {Override(EmptyPayload, "timestamp", PyStr(ClientTs))}
    \cup {NullPayload, ExamplePayload}
    \cup LeadDicts

GoodEnviron ==
    [k \in {EnvKeys[1], EnvKeys[2], EnvKeys[3]} |->
        IF k = EnvKeys[1] THEN <<" ", "c">>
        ELSE IF k = EnvKeys[2] THEN SheetId \o <<" ">>
        ELSE SheetTab]

\* a value of an environment variable; <<"absent">> stands for "unset"
Unset == <<"absent">>

SetEnv(env, k, val) ==
    IF val = Unset
    THEN [x \in DOMAIN env \ {k} |-> env[x]]
    ELSE [x \in DOMAIN env \cup {k} |-> IF x = k THEN val ELSE env[x]]

Environs ==
    {SetEnv(GoodEnviron, EnvKeys[i], val) : i \in 1..3, val \in {Unset, <<>>, BlankText}}
    \cup {GoodEnviron,
          SetEnv(GoodEnviron, EnvKeys[1], <<"/", "b", "/", "c">>),
          SetEnv(GoodEnviron, EnvKeys[1], <<"m">>),
          SetEnv(GoodEnviron, EnvKeys[2], <<"x">>),
          SetEnv(GoodEnviron, EnvKeys[3], <<"y">>)}

(* ------------------------------ the row -------------------------------- *)

Digit(n) == CASE n = 0 -> "0" [] n = 1 -> "1" [] n = 2 -> "2" [] n = 3 -> "3" [] n = 4 -> "4"
              [] n = 5 -> "5" [] n = 6 -> "6" [] n = 7 -> "7" [] n = 8 -> "8" [] n = 9 -> "9"

\* datetime.strftime("%Y-%m-%d %H:%M:%S") of the clock, t seconds after
\* 2025-06-01 00:00:00 (t < 60)
strftime(t) ==
    <<"2", "0", "2", "5", "-", "0", "6", "-", "0", "1", " ", "0", "0", ":", "0", "0", ":",
      Digit(t \div 10), Digit(t % 10)>>

\* the timestamp column: datetime.now().strftime(...)
Timestamp(t) == PyStr(strftime(t))

\* the operand of .strip() in  (data.get(key) or dflt).strip()
Operand(d, k, dflt) == PyOr(Get(d, k), PyStr(dflt))

\* .strip() exists on str only: on any other value the attribute lookup raises
StripRaises(d, k, dflt) == Operand(d, k, dflt).t # "str"

StrCol(d, k, dflt) == PyStr(strip(Operand(d, k, dflt).v))

\* data.get(key, "")
NumCol(d, k) == GetDefault(d, k, PyStr(<<>>))

Website == <<"w", "e", "b", "s", "i", "t", "e">>

New == <<"N", "e", "w">>

PhoneCol(d) == StrCol(d, "phone", <<>>)

SourceCol(d) == StrCol(d, "source", Website)

StatusCol(d) == StrCol(d, "status", New)

\* the default of each stripped column, in row order
StripCols ==
    <<[k |-> "name", d |-> <<>>], [k |-> "phone", d |-> <<>>], [k |-> "email", d |-> <<>>],
      [k |-> "state", d |-> <<>>], [k |-> "start_date", d |-> <<>>],
      [k |-> "end_date", d |-> <<>>], [k |-> "hotel_category", d |-> <<>>],
      [k |-> "guide", d |-> <<>>], [k |-> "vehicle", d |-> <<>>],
      [k |-> "package", d |-> <<>>], [k |-> "source", d |-> Website],
      [k |-> "message", d |-> <<>>], [k |-> "status", d |-> New]>>

\* building the list raises as soon as one element's expression raises
RowRaises(d) == \E i \in 1..Len(StripCols) : StripRaises(d, StripCols[i].k, StripCols[i].d)

\* the sixteen columns after the timestamp
Columns(d) ==
    <<StrCol(d, "name", <<>>),
      PhoneCol(d),
      StrCol(d, "email", <<>>),
      StrCol(d, "state", <<>>),
      StrCol(d, "start_date", <<>>),
      StrCol(d, "end_date", <<>>),
      NumCol(d, "days"),
      NumCol(d, "travellers"),
      NumCol(d, "rooms"),
      StrCol(d, "hotel_category", <<>>),
      StrCol(d, "guide", <<>>),
      StrCol(d, "vehicle", <<>>),
      StrCol(d, "package", <<>>),
      SourceCol(d),
      StrCol(d, "message", <<>>),
      StatusCol(d)>>

\* mutant: a timestamp sent by the client wins over the clock
RowClientTimestamp(d, t) == <<PyOr(Get(d, "timestamp"), Timestamp(t))>> \o Columns(d)

\* the list literal of insert_lead
Row(d, t) == <<Timestamp(t)>> \o Columns(d)

(* ------------------------------- state --------------------------------- *)

NoResponse == [status |-> 0, key |-> "", text |-> "", err |-> NoExc]

\* {"status": "saved"}
Saved == [status |-> 200, key |-> "status", text |-> "saved", err |-> NoExc]

\* HTTPException(status_code=500, detail=f"Lead save failed: {str(e)}")
Failed(e) == [status |-> 500, key |-> "detail", text |-> "Lead save failed: ", err |-> e]

Call(op, ok) == [op |-> op, ok |-> ok]

Init ==
    /\ environ \in Environs
    /\ data \in Payloads
    /\ now = 0
    /\ rows = <<>>
    /\ pc = "idle"
    /\ caller = ""
    /\ cfg = <<>>
    /\ ws = <<>>
    /\ row = <<>>
    /\ exc = NoExc
    /\ calls = <<>>
    /\ response = NoResponse

\* raise e out of the step `at`
Raise(e) ==
    /\ exc' = e
    /\ pc' = "raised"

(* ------------------------------ actions -------------------------------- *)

\* the wall clock advances
Tick ==
    /\ now < MaxClock
    /\ now' = now + 1
    /\ UNCHANGED <<environ, data, rows, pc, caller, cfg, ws, row, exc, calls, response>>

\* a caller other than the HTTP route calls insert_lead(data)
insert_lead ==
    /\ pc = "idle"
    /\ Len(rows) < MaxRows
    /\ pc' = "get_sheet"
    /\ caller' = "direct"
    /\ UNCHANGED <<environ, data, now, rows, cfg, ws, row, exc, calls, response>>

\* POST /api/leads: the validated LeadIn is passed on as lead.dict()
create_lead ==
    /\ pc = "idle"
    /\ Len(rows) < MaxRows
    /\ IsLeadDict(data)
    /\ pc' = "get_sheet"
    /\ caller' = "http"
    /\ UNCHANGED <<environ, data, now, rows, cfg, ws, row, exc, calls, response>>

\* get_sheet, the three _get_required_env calls
ResolveEnv ==
    /\ pc = "get_sheet"
    /\ \/ /\ AnyMissing
          /\ Raise(Exc("RuntimeError", MsgMissingEnv, EnvKeys[FirstMissing], "get_required_env"))
          /\ UNCHANGED cfg
       \/ /\ ~AnyMissing
          /\ cfg' = <<get_required_env(EnvKeys[1]), get_required_env(EnvKeys[2]),
                      get_required_env(EnvKeys[3])>>
          /\ pc' = "check_creds"
          /\ UNCHANGED exc
    /\ UNCHANGED <<environ, data, now, rows, caller, ws, row, calls, response>>

\* get_sheet, the os.path.exists test of the resolved credentials path
CheckCredsFile ==
    /\ pc = "check_creds"
    /\ \/ /\ ~exists(creds_abs(cfg[1]))
          /\ Raise(Exc("RuntimeError", MsgCredsNotFound, "", "check_creds"))
       \/ /\ exists(creds_abs(cfg[1]))
          /\ pc' = "authorize"
          /\ UNCHANGED exc
    /\ UNCHANGED <<environ, data, now, rows, caller, cfg, ws, row, calls, response>>

\* get_sheet, Credentials.from_service_account_file and gspread.authorize:
\* outside every try block, so what the loader raises on a file that is not
\* service-account JSON leaves get_sheet as it is
Authorize ==
    /\ pc = "authorize"
    /\ \/ /\ Raise(Exc("ValueError", "Service account info was not in the expected format", "",
                       "authorize"))
          /\ UNCHANGED calls
       \/ /\ calls' = Append(calls, Call("authorize", TRUE))
          /\ pc' = "open"
          /\ UNCHANGED exc
    /\ UNCHANGED <<environ, data, now, rows, caller, cfg, ws, row, response>>

\* the except clause of get_sheet
OpenFailed(cause) == Exc("RuntimeError", MsgOpenFailed, cause, "open")

\* get_sheet, client.open_by_key(sheet_id).worksheet(sheet_tab) in its try block
OpenSheet ==
    /\ pc = "open"
    /\ \/ /\ cfg[2] # SheetId
          /\ calls' = Append(calls, Call("open_by_key", FALSE))
          /\ Raise(OpenFailed("SpreadsheetNotFound"))
          /\ UNCHANGED ws
       \/ /\ calls' = Append(calls, Call("open_by_key", FALSE))
          /\ Raise(OpenFailed("APIError"))
          /\ UNCHANGED ws
       \/ /\ cfg[2] = SheetId
          /\ cfg[3] # SheetTab
          /\ calls' = calls \o <<Call("open_by_key", TRUE), Call("worksheet", FALSE)>>
          /\ Raise(OpenFailed("WorksheetNotFound"))
          /\ UNCHANGED ws
       \/ /\ cfg[2] = SheetId
          /\ cfg[3] = SheetTab
          /\ calls' = calls \o <<Call("open_by_key", TRUE), Call("worksheet", TRUE)>>
          /\ ws' = <<cfg[2], cfg[3]>>
          /\ pc' = "build_row"
          /\ UNCHANGED exc
    /\ UNCHANGED <<environ, data, now, rows, caller, cfg, row, response>>

\* insert_lead, the list literal
BuildRow ==
    /\ pc = "build_row"
    /\ \/ /\ RowRaises(data)
          /\ Raise(Exc("AttributeError", "object has no attribute 'strip'", "", "build_row"))
          /\ UNCHANGED row
       \/ /\ ~RowRaises(data)
          /\ row' = Row(data, now)
          /\ pc' = "append"
          /\ UNCHANGED exc
    /\ UNCHANGED <<environ, data, now, rows, caller, cfg, ws, calls, response>>

\* insert_lead, ws.append_row returns
AppendRowOk ==
    /\ pc = "append"
    /\ calls' = Append(calls, Call("append_row", TRUE))
    /\ rows' = Append(rows, row)
    /\ pc' = "returned"
    /\ UNCHANGED <<environ, data, now, caller, cfg, ws, row, exc, response>>

\* mutant: a failed append is tried once more before the error is raised
AppendRowFailsRetry ==
    /\ pc = "append"
    /\ calls' = calls \o <<Call("append_row", FALSE), Call("append_row", FALSE)>>
    /\ \/ rows' = rows
       \/ rows' = Append(rows, row)
    /\ Raise(Exc("RuntimeError", MsgAppendFailed, "APIError", "append"))
    /\ UNCHANGED <<environ, data, now, caller, cfg, ws, row, response>>

\* insert_lead, ws.append_row raises: the except clause wraps it.  The
\* remote side may or may not have applied the write before the failure.
AppendRowFails ==
    /\ pc = "append"
    /\ calls' = Append(calls, Call("append_row", FALSE))
    /\ \/ rows' = rows
       \/ rows' = Append(rows, row)
    /\ Raise(Exc("RuntimeError", MsgAppendFailed, "APIError", "append"))
    /\ UNCHANGED <<environ, data, now, caller, cfg, ws, row, response>>

\* mutant: the except clause swallows the error and acknowledges
RespondSwallow ==
    /\ caller = "http"
    /\ pc \in {"returned", "raised"}
    /\ response' = Saved
    /\ pc' = "responded"
    /\ UNCHANGED <<environ, data, now, rows, caller, cfg, ws, row, exc, calls>>

\* create_lead, after insert_lead: return {"status": "saved"}, or the except
\* clause raising HTTPException(500)
Respond ==
    /\ caller = "http"
    /\ \/ /\ pc = "returned"
          /\ response' = Saved
       \/ /\ pc = "raised"
          /\ response' = Failed(exc)
    /\ pc' = "responded"
    /\ UNCHANGED <<environ, data, now, rows, caller, cfg, ws, row, exc, calls>>

\* mutant: the opened worksheet handle is kept for the next call
ReturnKeepsHandle ==
    /\ \/ pc = "responded"
       \/ caller = "direct" /\ pc \in {"returned", "raised"}
    /\ pc' = "idle"
    /\ caller' = ""
    /\ row' = <<>>
    /\ exc' = NoExc
    /\ calls' = <<>>
    /\ UNCHANGED <<environ, data, now, rows, response, cfg, ws>>

\* the call is over: its frames and their locals are gone
Return ==
    /\ \/ pc = "responded"
       \/ caller = "direct" /\ pc \in {"returned", "raised"}
    /\ pc' = "idle"
    /\ caller' = ""
    /\ cfg' = <<>>
    /\ ws' = <<>>
    /\ row' = <<>>
    /\ exc' = NoExc
    /\ calls' = <<>>
    /\ UNCHANGED <<environ, data, now, rows, response>>

Next ==
    \/ Tick
    \/ insert_lead
    \/ create_lead
    \/ ResolveEnv
    \/ CheckCredsFile
    \/ Authorize
    \/ OpenSheet
    \/ BuildRow
    \/ AppendRowOk
    \/ AppendRowFails
    \/ Respond
    \/ Return

Spec == Init /\ [][Next]_vars

(* ------------------------------ claims --------------------------------- *)

IsBlank(s) == \A i \in 1..Len(s) : s[i] \in {" ", "\t"}

\* a required configuration value is absent, empty or whitespace-only
RequiredBlank ==
    \E i \in 1..3 : IF EnvKeys[i] \in DOMAIN environ THEN IsBlank(environ[EnvKeys[i]]) ELSE TRUE

Terminal == pc \in {"returned", "raised", "responded"}

CountOp(op) == Cardinality({i \in 1..Len(calls) : calls[i].op = op})

\* C1: when a required configuration value (credentials location, sheet id,
\* sheet tab) is absent or blank, every call has failed, once past its first
\* step, with the missing-variable configuration error naming a blank key;
\* it has made no authorize, open_by_key, worksheet or append_row call, holds
\* no sheet handle, and the sink has no row it did not have before.
C1_BlankConfigFailsBeforeAnyRemoteCall ==
    (RequiredBlank /\ pc \notin {"idle", "get_sheet"}) =>
        /\ pc \in {"raised", "responded"}
        /\ exc.type = "RuntimeError"
        /\ exc.msg = MsgMissingEnv
        /\ exc.at = "get_required_env"
        /\ \E i \in 1..3 : exc.arg = EnvKeys[i] /\
              (IF EnvKeys[i] \in DOMAIN environ THEN IsBlank(environ[EnvKeys[i]]) ELSE TRUE)
        /\ calls = <<>>
        /\ ws = <<>>
        /\ rows = <<>>

\* C1 witness: a call failed on a whitespace-only sheet id
C1_Witness ==
    /\ pc = "raised"
    /\ EnvKeys[2] \in DOMAIN environ
    /\ environ[EnvKeys[2]] = BlankText
    /\ exc.arg = EnvKeys[2]

\* C2 (as claimed): no failure of insert_lead originates in building the row
\* from the payload.
C2_RowBuildingNeverRaises == exc.at # "build_row"

\* C3: a call whose append failed has raised the append error wrapping the
\* cause, after resolving the configuration and opening the sink; append_row
\* was called exactly once in it and is the last remote call of the call.
C3_OneAppendAttemptNoRetry ==
    (exc.at = "append") =>
        /\ pc \in {"raised", "responded"}
        /\ exc.type = "RuntimeError"
        /\ exc.msg = MsgAppendFailed
        /\ exc.arg # ""
        /\ cfg # <<>>
        /\ ws # <<>>
        /\ CountOp("append_row") = 1
        /\ calls[Len(calls)] = Call("append_row", FALSE)

\* C3 witness: the append failed and the error is on its way to the caller
C3_Witness == pc = "raised" /\ exc.at = "append" /\ CountOp("append_row") = 1

\* the classification the taxonomy gives an exception of this module
Kind(e) ==
    IF e.type = "RuntimeError" /\ e.msg \in {MsgMissingEnv, MsgCredsNotFound}
    THEN "ConfigurationError"
    ELSE IF e.type = "RuntimeError" /\ e.msg = MsgOpenFailed THEN "SinkUnavailableError"
    ELSE IF e.type = "RuntimeError" /\ e.msg = MsgAppendFailed THEN "WriteError"
    ELSE "Unclassified"

\* C4 (as claimed): configuration failures, unreadable or malformed identity
\* material included, are ConfigurationError; failed authentication or
\* resolution of the sheet is SinkUnavailableError wrapping its cause; a
\* failed append is WriteError; nothing unclassified leaves these stages.
C4_EachStageItsOwnErrorKind ==
    /\ exc.at \in {"get_required_env", "check_creds", "authorize"} =>
          Kind(exc) = "ConfigurationError"
    /\ exc.at = "open" => Kind(exc) = "SinkUnavailableError" /\ exc.arg # ""
    /\ exc.at = "append" => Kind(exc) = "WriteError"

AppendReturned == calls # <<>> /\ calls[Len(calls)] = Call("append_row", TRUE)

\* C5: insert_lead returns only after append_row returned without error and
\* raises otherwise; create_lead answers {"status": "saved"} only when
\* the append of that request returned without error, and otherwise answers
\* 500 with the text of the very error insert_lead raised.
C5_NoFailureSwallowed ==
    /\ pc = "returned" => AppendReturned /\ exc = NoExc /\ \A i \in 1..Len(calls) : calls[i].ok
    /\ pc = "raised" => exc # NoExc /\ ~AppendReturned
    /\ pc = "responded" =>
          /\ response.status \in {200, 500}
          /\ response.status = 200 => response = Saved /\ AppendReturned /\ exc = NoExc
          /\ ~AppendReturned =>
                /\ exc # NoExc
                /\ response = Failed(exc)
                /\ response.status = 500
                /\ response.key = "detail"

\* C5 witness: a request whose append failed was answered 500
C5_Witness ==
    /\ pc = "responded"
    /\ exc.at = "append"
    /\ response.status = 500
    /\ response.err.msg = MsgAppendFailed

\* the stage of the call in progress, read off its locals
Stage ==
    IF pc = "idle" THEN "NO_CALL"
    ELSE IF exc # NoExc THEN "FAILED"
    ELSE IF AppendReturned THEN "ROW_APPENDED"
    ELSE IF ws # <<>> THEN "SINK_OPEN"
    ELSE IF cfg # <<>> THEN "CONFIG_RESOLVED"
    ELSE "UNCONFIGURED"

StageStep(a, b) ==
    \/ a = b
    \/ a = "NO_CALL" /\ b = "UNCONFIGURED"
    \/ a = "UNCONFIGURED" /\ b = "CONFIG_RESOLVED"
    \/ a = "CONFIG_RESOLVED" /\ b = "SINK_OPEN"
    \/ a = "SINK_OPEN" /\ b = "ROW_APPENDED"
    \/ a \in {"UNCONFIGURED", "CONFIG_RESOLVED", "SINK_OPEN"} /\ b = "FAILED"
    \/ a \in {"ROW_APPENDED", "FAILED"} /\ b = "NO_CALL"

\* C6: the stage of a call only moves UNCONFIGURED -> CONFIG_RESOLVED ->
\* SINK_OPEN -> ROW_APPENDED or into failure; append_row is only ever called
\* after authorize, open_by_key and worksheet succeeded in the same call with
\* the configuration resolved; and every call begins UNCONFIGURED with no
\* configuration, handle, row, error or remote call left from an earlier one.
C6_StagesInOrderEveryCallFresh ==
    /\ [][StageStep(Stage, Stage')]_vars
    /\ [](CountOp("append_row") > 0 =>
            /\ cfg # <<>>
            /\ ws = <<cfg[2], cfg[3]>>
            /\ Len(calls) = 4
            /\ calls[1] = Call("authorize", TRUE)
            /\ calls[2] = Call("open_by_key", TRUE)
            /\ calls[3] = Call("worksheet", TRUE)
            /\ calls[4].op = "append_row")
    /\ [](pc = "get_sheet" =>
            cfg = <<>> /\ ws = <<>> /\ row = <<>> /\ exc = NoExc /\ calls = <<>>)

\* C6 witness: the request before this one was answered 500, and this one
\* went through all the stages to ROW_APPENDED
C6_Witness ==
    /\ caller = "http"
    /\ pc = "returned"
    /\ response.status = 500
    /\ Stage = "ROW_APPENDED"

AbsentOrNull(d, k) == IF k \in DOMAIN d THEN d[k] = PyNone ELSE TRUE

\* the column of each payload key that has one
ColumnOf ==
    [k \in StringKeys \cup NumKeys |->
        CASE k = "name" -> 2 [] k = "phone" -> 3 [] k = "email" -> 4 [] k = "state" -> 5
          [] k = "start_date" -> 6 [] k = "end_date" -> 7 [] k = "days" -> 8
          [] k = "travellers" -> 9 [] k = "rooms" -> 10 [] k = "hotel_category" -> 11
          [] k = "guide" -> 12 [] k = "vehicle" -> 13 [] k = "package" -> 14
          [] k = "source" -> 15 [] k = "message" -> 16 [] k = "status" -> 17]

\* C7 (as claimed): the row built has 17 values, none of them a null marker;
\* an absent or null string field is the empty string (the default for
\* source and status), and an absent or null days/travellers/rooms is the
\* empty string.
C7_SeventeenValuesNoNullMarker ==
    row # <<>> =>
        /\ Len(row) = 17
        /\ \A i \in 1..17 : row[i] # PyNone
        /\ \A k \in StringKeys \ {"source", "status"} :
              AbsentOrNull(data, k) => row[ColumnOf[k]] = PyStr(<<>>)
        /\ \A k \in NumKeys : AbsentOrNull(data, k) => row[ColumnOf[k]] = PyStr(<<>>)

\* absent, null, empty or whitespace-only
BlankField(d, k) ==
    IF k \in DOMAIN d
    THEN d[k] = PyNone \/ (d[k].t = "str" /\ IsBlank(d[k].v))
    ELSE TRUE

\* C8 (as claimed): source is "website" and status is "New" whenever the
\* payload field is absent, null, empty or whitespace-only, and neither is
\* ever empty or whitespace-only in a row.
C8_SourceAndStatusDefaults ==
    row # <<>> =>
        /\ BlankField(data, "source") => row[15] = PyStr(Website)
        /\ BlankField(data, "status") => row[17] = PyStr(New)
        /\ ~IsBlank(row[15].v)
        /\ ~IsBlank(row[17].v)

\* C9 (as claimed): a non-blank phone is written trimmed; a blank or absent
\* phone takes the trimmed mobile; with both blank the column is empty.
C9_PhoneFallsBackToMobile ==
    row # <<>> =>
        IF ~BlankField(data, "phone")
        THEN data["phone"].t = "str" => row[3] = PyStr(strip(data["phone"].v))
        ELSE IF ~BlankField(data, "mobile")
             THEN data["mobile"].t = "str" => row[3] = PyStr(strip(data["mobile"].v))
             ELSE row[3] = PyStr(<<>>)

StringFieldsOk(d) == \A k \in StringKeys : k \in DOMAIN d => d[k].t = "str"

\* C10: for a payload whose string fields are strings or absent a call fails
\* only in configuration or in the sink, never in between; when it returns,
\* the sink is what it was plus that call's row as its last row, the row's
\* first column is the non-empty formatted server clock, and no column holds
\* the timestamp the payload supplied.
C10_OneTrailingRowServerTimestamp ==
    /\ [](StringFieldsOk(data) /\ exc # NoExc =>
            exc.at \in {"get_required_env", "check_creds", "authorize", "open", "append"})
    /\ [](pc = "returned" =>
            /\ Len(row) = 17
            /\ rows # <<>>
            /\ rows[Len(rows)] = row
            /\ \E t \in 0..now : row[1] = PyStr(strftime(t))
            /\ Len(row[1].v) = 19
            /\ \A i \in 1..17 : row[i] # PyStr(ClientTs))
    /\ [][pc = "append" /\ pc' = "returned" => rows' = Append(rows, row)]_vars

\* C10 witness: a second row was appended for a payload that carries its
\* own timestamp
C10_Witness ==
    /\ pc = "returned"
    /\ Len(rows) = 2
    /\ "timestamp" \in DOMAIN data
    /\ data["timestamp"] = PyStr(ClientTs)
    /\ StringFieldsOk(data)

====
